---- MODULE Spec2Model ----
(***************************************************************************)
(* Holt-Winters temperature forecast: one Sensor per device, fed by the    *)
(* Director (src/forecast/sensor.py, src/forecast/director.py).            *)
(*                                                                         *)
(* Numbers.  The program computes in floating point.  Here a temperature   *)
(* is an integer count of 1/Scale degrees and every product or quotient    *)
(* that floating point would round is rounded to the nearest unit (RDiv).  *)
(* A float that can be NaN (a time derived from the step length) is a      *)
(* sequence: <<>> is NaN and <<v>> is the number v.                        *)
(* Python sequences are 0-based; TLA+ sequences are 1-based: PyAt and      *)
(* PySlice do the index arithmetic, negative indices included.             *)
(***************************************************************************)
EXTENDS Integers, Sequences, FiniteSets, TLC

VARIABLES prm, args, sensors, phase, n_reconnects, nth_reconnect, failed

vars == <<prm, args, sensors, phase, n_reconnects, nth_reconnect, failed>>

----------------------------------------------------------------------------
(* Bounds of the model *)

\* samples delivered to a sensor after the one that initialises it
MaxSteps == 3

\* events of one sensor whose timestamp is off the cadence
MaxIrregular == 2

\* longest season and most seasons of history a configuration may ask for
MaxSeasonLength == 2
MaxSeasonsInit == 2

\* most horizons forecast, and the furthest horizon that may be recorded,
\* where a configuration sets the two freely
MaxForecast == 3
MaxStepAhead == 3

\* samples delivered to each sensor of a Director that has several
MaxPairSamples == 5

\* largest n_reconnects, and most connection attempts that fail in a row
MaxReconnects == 5
MaxFailed == 6

\* fixed-point resolution: units per degree and per second
Scale == 10^3

\* the cadence of a sensor and the gap that empties the 24 h window, seconds
Hour == 60*60
LongGap == 25*Hour

\* temperatures a sensor may report
Temperatures == {20*Scale, 21*Scale + 500}

\* device ids: those in the project's device list, and one that is not
KnownIds == {"dev1"}
UnknownIds == {"other"}

\* the temperature devices of a project with two of them
PairIds == {"dev1", "dev2"}

DeviceIds == KnownIds \cup PairIds \cup UnknownIds

----------------------------------------------------------------------------
(* Arithmetic *)

Abs(x) == IF x < 0 THEN -x ELSE x

Min(a, b) == IF a < b THEN a ELSE b

Max(a, b) == IF a > b THEN a ELSE b

\* a / b rounded to the nearest integer (b > 0)
RDiv(a, b) == (2*a + b) \div (2*b)

\* f * x for a constant f = <<numerator, denominator>>
Times(f, x) == RDiv(f[1]*x, f[2])

\* 1 - f
OneMinus(f) == <<f[2] - f[1], f[2]>>

RECURSIVE SqrtBetween(_, _, _)
SqrtBetween(n, lo, hi) ==
    IF lo >= hi THEN lo
    ELSE LET mid == (lo + hi + 1) \div 2
         IN  IF mid*mid <= n THEN SqrtBetween(n, mid, hi)
                             ELSE SqrtBetween(n, lo, mid - 1)

\* floor of the square root of n >= 0
ISqrt(n) == SqrtBetween(n, 0, Min(n, 46340))

\* np.sqrt(num/den) in 1/Scale; the roots of small ratios are tabulated
SmallRatio == 3*MaxSeasonLength

SqrtTable ==
    [num \in 0..SmallRatio |->
        [den \in 1..SmallRatio |-> ISqrt(RDiv(Scale*Scale*num, den))]]

SqrtOfRatio(num, den) ==
    IF num \in 0..SmallRatio /\ den \in 1..SmallRatio
    THEN SqrtTable[num][den]
    ELSE ISqrt(RDiv(Scale*Scale*num, den))

RECURSIVE Sum(_)
Sum(s) == IF s = <<>> THEN 0 ELSE Head(s) + Sum(Tail(s))

\* np.mean of a non-empty array
Mean(s) == RDiv(Sum(s), Len(s))

\* np.std: population standard deviation of a non-empty array
Std(s) ==
    LET m == Mean(s)
    IN  ISqrt(RDiv(Sum([i \in 1..Len(s) |-> (s[i] - m)*(s[i] - m)]), Len(s)))

----------------------------------------------------------------------------
(* Python indexing *)

\* s[i], i a Python index (negative counts from the end)
PyAt(s, i) == IF i < 0 THEN s[Len(s) + i + 1] ELSE s[i + 1]

\* i is an index of a sequence of n elements: s[i] raises no IndexError
InRange(n, i) == -n <= i /\ i < n

\* some read, <<length of the sequence, index>>, raises IndexError
IndexError(reads) == \E x \in reads : ~InRange(x[1], x[2])

\* no exception
None == "None"

\* s[lo:hi] for 0 <= lo, hi <= len(s)
PySlice(s, lo, hi) == SubSeq(s, lo + 1, hi)

\* float NaN and float numbers where NaN can occur
NaN == <<>>
Num(v) == <<v>>

----------------------------------------------------------------------------
(* forecast/config/parameters.py *)

\* smoothing factors 0.02, 0.01, 0.75 and the bounds' scaler 1.96
alpha == <<2, 100>>
beta == <<1, 100>>
gamma == <<75, 100>>
bound_modifier == <<196, 100>>

\* the parameters module for a season of L samples and S seasons of history
Parameters(L, S) ==
    [season_length  |-> L,
     n_seasons_init |-> S,
     n_forecast     |-> L*2,
     n_step_ahead   |-> L]

\* seconds in the step-length window
Day == 60*60*24

----------------------------------------------------------------------------
(* forecast/helpers.py *)

\* algebraic_linreg(x, y): <<intercept, slope>> of the fitted line
algebraic_linreg_swapped(x, y) ==
    LET n   == Len(x)
        s00 == n
        s10 == Sum(x)
        s01 == Sum(y)
        s20 == Sum([i \in 1..n |-> x[i]*x[i]])
        s11 == Sum([i \in 1..n |-> x[i]*y[i]])
        b   == RDiv(s00*s11 - s10*s01, s00*s20 - s10*s10)
        a   == RDiv(s01 - b*s10, s00)
    IN  <<b, a>>

algebraic_linreg(x, y) ==
    LET n   == Len(x)
        s00 == n
        s10 == Sum(x)
        s01 == Sum(y)
        s20 == Sum([i \in 1..n |-> x[i]*x[i]])
        s11 == Sum([i \in 1..n |-> x[i]*y[i]])
        b   == RDiv(s00*s11 - s10*s01, s00*s20 - s10*s10)
        a   == RDiv(s01 - b*s10, s00)
    IN  <<a, b>>

----------------------------------------------------------------------------
(* forecast/sensor.py: class Sensor *)

\* Sensor.__init__
Sensor(p) ==
    [model |-> [unixtime |-> <<>>, temperature |-> <<>>,
                level |-> <<>>, trend |-> <<>>, season |-> <<>>],
     local_forecast |-> [unixtime    |-> [t \in 1..p.n_forecast |-> Num(0)],
                         temperature |-> [t \in 1..p.n_forecast |-> 0],
                         upper_bound |-> [t \in 1..p.n_forecast |-> 0],
                         lower_bound |-> [t \in 1..p.n_forecast |-> 0]],
     forecast |-> [unixtime |-> <<>>, temperature |-> <<>>, residual |-> <<>>],
     n_samples    |-> 0,
     initialised  |-> FALSE,
     residual_std |-> 0]

\* the index expressions of the class
\* df[i + j*season_length] (line 111)
InitIndex(p, i, j) == i + j*p.season_length

\* season[-season_length] (lines 142, 144)
SeasonLag(p) == -p.season_length

\* season[-season_length + (t-1)%season_length] (line 165)
SeasonIndex(p, t) == -p.season_length + ((t - 1) % p.season_length)

\* local_forecast[min(n_step_ahead-1, n_forecast-1)] (lines 173-174)
AheadUnclamped(p) == p.n_step_ahead - 1

Ahead(p) == Min(p.n_step_ahead - 1, p.n_forecast - 1)

\* forecast['temperature'][-n_step_ahead-1] (line 178)
Lookback(p) == -p.n_step_ahead - 1

\* the 3 x season moving average of the temperatures (lines 95-103)
MovingAverage(temperature, n, p) ==
    [k \in 1..n |->
        LET i  == k - 1
            xl == Max(0, i - (3*p.season_length) \div 2)
            xr == Min(n, i + (3*p.season_length) \div 2 + 1)
        IN  Mean(PySlice(temperature, xl, xr))]

\* the average seasonal component, one value per phase (lines 108-111)
AverageSeason(df, p) ==
    [k \in 1..p.season_length |->
        Mean([j \in 1..p.n_seasons_init |->
                PyAt(df, InitIndex(p, k - 1, j - 1))])]

\* Sensor.initialise_holt_winters.  init_plot reads a name, df, that it
\* does not define: with plot_init set the call raises once the three
\* sequences are written, and the flag is not flipped.
initialise_holt_winters(s, p, a) ==
    LET n           == s.n_samples
        temperature == s.model.temperature
        ma          == MovingAverage(temperature, n, p)
        df          == [k \in 1..n |-> temperature[k] - ma[k]]
        avs         == AverageSeason(df, p)
        season      == s.model.season \o
                       [k \in 1..n |-> PyAt(avs, (k - 1) % Len(avs))]
        adjusted    == [k \in 1..n |-> temperature[k] - season[k]]
        xax         == [k \in 1..n |-> k - 1]
        ab          == algebraic_linreg(xax, adjusted)
        linreg      == [k \in 1..n |-> ab[1] + xax[k]*ab[2]]
        level       == s.model.level \o linreg
        trend       == s.model.trend \o [k \in 1..n |-> ab[2]]
        written     == [s EXCEPT !.model.season = season,
                                 !.model.level  = level,
                                 !.model.trend  = trend]
    IN  IF a.plot_init
        THEN [sensor |-> written, raised |-> "NameError"]
        ELSE [sensor |-> [written EXCEPT !.initialised = TRUE],
              raised |-> None]

\* the level, trend and season of the newest sample (lines 142-144)
HWLevel(m, p) ==
    Times(alpha, PyAt(m.temperature, -1) - PyAt(m.season, SeasonLag(p)))
    + Times(OneMinus(alpha), PyAt(m.level, -1) + PyAt(m.trend, -1))

HWTrend(m, l) ==
    Times(beta, l - PyAt(m.level, -1)) + Times(OneMinus(beta), PyAt(m.trend, -1))

HWSeasonNoLag(m, p) ==
    Times(gamma, PyAt(m.temperature, -1) - PyAt(m.level, -1) - PyAt(m.trend, -1))
    + Times(OneMinus(gamma), PyAt(m.season, -1))

HWSeason(m, p) ==
    Times(gamma, PyAt(m.temperature, -1) - PyAt(m.level, -1) - PyAt(m.trend, -1))
    + Times(OneMinus(gamma), PyAt(m.season, SeasonLag(p)))

\* the components are appended (lines 146-149)
AppendComponentsNoTrend(m, l, b, se) ==
    [m EXCEPT !.level  = Append(@, l),
              !.season = Append(@, se)]

AppendComponentsWindowed(m, l, b, se) ==
    [m EXCEPT !.level  = Append(Tail(@), l),
              !.trend  = Append(Tail(@), b),
              !.season = Append(Tail(@), se)]

AppendComponents(m, l, b, se) ==
    [m EXCEPT !.level  = Append(@, l),
              !.trend  = Append(@, b),
              !.season = Append(@, se)]

\* Sensor.iterate_holt_winters
iterate_holt_winters(s, p) ==
    LET l  == HWLevel(s.model, p)
        b  == HWTrend(s.model, l)
        se == HWSeason(s.model, p)
    IN  [s EXCEPT !.model = AppendComponents(@, l, b, se)]

\* the average step length of the last 24 h, in 1/Scale s (lines 158-160);
\* the mean of no differences is NaN
StepLength(unixtime) ==
    LET last  == PyAt(unixtime, -1)
        tax   == SelectSeq(unixtime, LAMBDA u : u > last - Day)
        diffs == [k \in 1..(Len(tax) - 1) |-> tax[k + 1] - tax[k]]
    IN  IF diffs = <<>> THEN NaN ELSE Num(RDiv(Scale*Sum(diffs), Len(diffs)))

\* the forecast time of horizon t, in 1/Scale s (line 164)
ForecastTime(unixtime, ux_step, t) ==
    IF ux_step = NaN THEN NaN
    ELSE Num(Scale*PyAt(unixtime, -1) + (t + 1)*ux_step[1])

\* the Holt-Winters forecast of horizon t (line 165)
ForecastValuePhase(m, p, t) ==
    PyAt(m.level, -1) + t*PyAt(m.trend, -1)
    + PyAt(m.season, -p.season_length + (t % p.season_length))

ForecastValue(m, p, t) ==
    PyAt(m.level, -1) + t*PyAt(m.trend, -1) + PyAt(m.season, SeasonIndex(p, t))

\* residual_std*sqrt(k+1)*bound_modifier with k = (t-1)/season_length
\* (lines 168-170)
BoundWidth(residual_std, p, t) ==
    Times(bound_modifier,
          RDiv(residual_std*SqrtOfRatio(t - 1 + p.season_length, p.season_length),
               Scale))

\* the residual of the sample just forecast (lines 176-180)
ResidualNoColdStart(m, forecast_temperature, p) ==
    Abs(PyAt(m.temperature, -1)
        - PyAt(forecast_temperature,
               -Min(Len(forecast_temperature), p.n_step_ahead + 1)))

ResidualOffByOne(m, forecast_temperature, p) ==
    IF Len(forecast_temperature) > p.n_step_ahead
    THEN Abs(PyAt(m.temperature, -1)
             - PyAt(forecast_temperature, -p.n_step_ahead))
    ELSE 0

ResidualSigned(m, forecast_temperature, p) ==
    IF Len(forecast_temperature) > p.n_step_ahead
    THEN PyAt(m.temperature, -1)
         - PyAt(forecast_temperature, -p.n_step_ahead - 1)
    ELSE 0

Residual(m, forecast_temperature, p) ==
    IF Len(forecast_temperature) > p.n_step_ahead
    THEN Abs(PyAt(m.temperature, -1)
             - PyAt(forecast_temperature, Lookback(p)))
    ELSE 0

\* the residuals the standard deviation is taken over (line 184)
ResidualWindowAll(residual, p) == residual

ResidualWindow(residual, p) ==
    PySlice(residual, Max(0, Len(residual) - p.n_forecast), Len(residual))

\* Sensor.model_forecast with the standard deviation updated before the
\* bounds are computed
model_forecast_std_first(s, p) ==
    LET m       == s.model
        ux_step == StepLength(m.unixtime)
        value   == [k \in 1..p.n_forecast |-> ForecastValue(m, p, k - 1)]
        ahead   == Ahead(p)
        fux     == Append(s.forecast.unixtime,
                          ForecastTime(m.unixtime, ux_step, ahead))
        ftemp   == Append(s.forecast.temperature, value[ahead + 1])
        fres    == Append(s.forecast.residual, Residual(m, ftemp, p))
        std     == Std(ResidualWindow(fres, p))
        width   == [k \in 1..p.n_forecast |-> BoundWidth(std, p, k - 1)]
    IN  [s EXCEPT !.local_forecast =
                      [unixtime    |-> [k \in 1..p.n_forecast |->
                                          ForecastTime(m.unixtime, ux_step, k - 1)],
                       temperature |-> value,
                       upper_bound |-> [k \in 1..p.n_forecast |-> value[k] + width[k]],
                       lower_bound |-> [k \in 1..p.n_forecast |-> value[k] - width[k]]],
                  !.forecast       = [unixtime |-> fux, temperature |-> ftemp,
                                      residual |-> fres],
                  !.residual_std   = std]

\* Sensor.model_forecast
model_forecast(s, p) ==
    LET m       == s.model
        ux_step == StepLength(m.unixtime)
        value   == [k \in 1..p.n_forecast |-> ForecastValue(m, p, k - 1)]
        width   == [k \in 1..p.n_forecast |->
                        BoundWidth(s.residual_std, p, k - 1)]
        lf      == [unixtime    |-> [k \in 1..p.n_forecast |->
                                        ForecastTime(m.unixtime, ux_step, k - 1)],
                    temperature |-> value,
                    upper_bound |-> [k \in 1..p.n_forecast |-> value[k] + width[k]],
                    lower_bound |-> [k \in 1..p.n_forecast |-> value[k] - width[k]]]
        ahead   == Ahead(p)
        fux     == Append(s.forecast.unixtime, PyAt(lf.unixtime, ahead))
        ftemp   == Append(s.forecast.temperature, PyAt(lf.temperature, ahead))
        fres    == Append(s.forecast.residual, Residual(m, ftemp, p))
    IN  [s EXCEPT !.local_forecast = lf,
                  !.forecast       = [unixtime |-> fux, temperature |-> ftemp,
                                      residual |-> fres],
                  !.residual_std   = Std(ResidualWindow(fres, p))]

\* too few samples to initialise (line 75)
BelowThresholdLate(s, p) == s.n_samples <= p.season_length * p.n_seasons_init

BelowThreshold(s, p) == s.n_samples < p.season_length * p.n_seasons_init

\* what the three methods read by index, as <<length, index>>
InitReads(s, p) ==
    {<<s.n_samples, InitIndex(p, i, j)>> :
        i \in 0..(p.season_length - 1), j \in 0..(p.n_seasons_init - 1)}

IterateReads(s, p) == {<<Len(s.model.season), SeasonLag(p)>>}

ForecastReads(s, p) ==
    {<<Len(s.model.season), SeasonIndex(p, t)>> : t \in 0..(p.n_forecast - 1)}
    \cup {<<p.n_forecast, Ahead(p)>>}
    \cup (IF Len(s.forecast.temperature) + 1 > p.n_step_ahead
          THEN {<<Len(s.forecast.temperature) + 1, Lookback(p)>>}
          ELSE {})

\* Sensor.new_event_data: the sensor afterwards, and the exception the call
\* raised, if any.  A method that raises IndexError is taken to have
\* written nothing.
new_event_data(s, unixtime, value, p, a) ==
    LET s1 == [s EXCEPT !.model.unixtime    = Append(@, unixtime),
                        !.model.temperature = Append(@, value),
                        !.n_samples         = @ + 1]
        Forecast(s2) ==
            IF IndexError(ForecastReads(s2, p))
            THEN [sensor |-> s2, raised |-> "IndexError"]
            ELSE [sensor |-> model_forecast(s2, p), raised |-> None]
    IN  IF BelowThreshold(s1, p)
        THEN [sensor |-> s1, raised |-> None]
        ELSE IF ~s1.initialised
        THEN IF IndexError(InitReads(s1, p))
             THEN [sensor |-> s1, raised |-> "IndexError"]
             ELSE LET r == initialise_holt_winters(s1, p, a)
                  IN  IF r.raised # None THEN r ELSE Forecast(r.sensor)
        ELSE IF IndexError(IterateReads(s1, p))
             THEN [sensor |-> s1, raised |-> "IndexError"]
             ELSE Forecast(iterate_holt_winters(s1, p))

----------------------------------------------------------------------------
(* forecast/director.py: class Director *)

\* Director.plot_progress: TRUE when it raises.  Each axis is cleared, and
\* for a sensor with more than one sample the forecast is asked of
\* sensor.get_forecast, a method class Sensor does not define
\* (AttributeError).
plot_progress(ss) == \E id \in DOMAIN ss : ss[id].n_samples > 1

\* the configurations of the model
Configurations ==
    {Parameters(L, S) : L \in 2..MaxSeasonLength, S \in 2..MaxSeasonsInit}

\* timestamps of one sensor that do not follow the cadence
Irregular(unixtime) ==
    Cardinality({k \in 1..(Len(unixtime) - 1) :
                    unixtime[k + 1] - unixtime[k] # Hour})

\* the temperature of the n-th sample of the reference feed
Reference(n) == IF n % 3 = 0 THEN 21*Scale + 500 ELSE 20*Scale

OnReference(s) ==
    \A k \in 1..Len(s.model.temperature) : s.model.temperature[k] = Reference(k)

\* the events <<unixtime, temperature>> a sensor may receive next.  A feed
\* varies the temperatures or the timestamps: on the cadence any
\* temperature may follow; on the reference temperatures the timestamp may
\* also, MaxIrregular times, repeat the last one, precede it, or follow it
\* after a long gap.  The sensors of a Director that has several stay on
\* the cadence.
Several == Cardinality(DOMAIN sensors) > 1

NextEvents(s) ==
    LET u       == s.model.unixtime
        cadence == IF u = <<>> THEN Hour ELSE PyAt(u, -1) + Hour
        off     == IF u # <<>> /\ Irregular(u) < MaxIrregular /\ ~Several
                   THEN {PyAt(u, -1), PyAt(u, -1) - Hour \div 2,
                         PyAt(u, -1) + LongGap}
                   ELSE {}
    IN  (IF Irregular(u) = 0
         THEN {<<cadence, v>> : v \in Temperatures} ELSE {})
        \cup
        (IF OnReference(s)
         THEN {<<x, Reference(s.n_samples + 1)>> : x \in {cadence} \cup off}
         ELSE {})

\* a sensor that may still receive events within the bounds
Open(s) ==
    s.n_samples < (IF Several THEN MaxPairSamples
                   ELSE prm.season_length * prm.n_seasons_init + MaxSteps)

\* run_stream(n_reconnects=5)
DefaultReconnects == 5

\* exceptions nothing catches: they end the process
Exceptions == {"NameError", "AttributeError", "IndexError"}

\* Director.__init__ and __spawn_devices for the temperature devices ids
Director(ids, p, n) ==
    /\ prm = p
    /\ args \in [plot : BOOLEAN, plot_init : BOOLEAN]
    /\ sensors = [id \in ids |-> Sensor(p)]
    /\ phase = "history"
    /\ n_reconnects = n
    /\ nth_reconnect = 0
    /\ failed = 0

Init == \E p \in Configurations : Director(KnownIds, p, DefaultReconnects)

\* self.sensors[source_id] is the one object the event changes (line 344)
UpdatedSharedModel(ss, id, s) ==
    [i \in DOMAIN ss |-> IF i = id THEN s ELSE [ss[i] EXCEPT !.model = s.model]]

Updated(ss, id, s) == [ss EXCEPT ![id] = s]

\* Director.__new_event_data for a temperature event of a known device,
\* and the plot that follows it in run_stream; an exception of the sensor or
\* of the plot is not caught anywhere and ends the process
ServeHistoryBuffered(id, unixtime, value) ==
    \E r \in {new_event_data(sensors[id], unixtime, value, prm, args)} :
        /\ sensors' = IF phase = "history" /\ sensors[id].initialised
                      THEN [sensors EXCEPT
                              ![id].model.unixtime    = Append(@, unixtime),
                              ![id].model.temperature = Append(@, value),
                              ![id].n_samples         = @ + 1]
                      ELSE Updated(sensors, id, r.sensor)
        /\ phase' = IF r.raised # None THEN r.raised
                    ELSE IF phase = "stream" /\ args.plot
                            /\ plot_progress(sensors')
                         THEN "AttributeError"
                         ELSE phase
        /\ UNCHANGED <<prm, args, n_reconnects, nth_reconnect, failed>>

Serve(id, unixtime, value) ==
    \E r \in {new_event_data(sensors[id], unixtime, value, prm, args)} :
        /\ sensors' = Updated(sensors, id, r.sensor)
        /\ phase' = IF r.raised # None THEN r.raised
                    ELSE IF phase = "stream" /\ args.plot
                            /\ plot_progress(sensors')
                         THEN "AttributeError"
                         ELSE phase
        /\ UNCHANGED <<prm, args, n_reconnects, nth_reconnect, failed>>

\* Director.__new_event_data for an event without temperature data or of a
\* device that has no sensor: nothing is served; run_stream plots
Dropped(id, temperature) ==
    /\ ~(temperature /\ id \in DOMAIN sensors)
    /\ phase' = IF phase = "stream" /\ args.plot /\ plot_progress(sensors)
                THEN "AttributeError" ELSE phase
    /\ UNCHANGED <<prm, args, sensors, n_reconnects, nth_reconnect, failed>>

\* Director.__new_event_data for a temperature event of device id
TemperatureEvent(id) ==
    IF id \in DOMAIN sensors
    THEN /\ Open(sensors[id])
         /\ \E e \in NextEvents(sensors[id]) : Serve(id, e[1], e[2])
    ELSE Dropped(id, TRUE)

\* run_history: one event of the history is served; nothing is plotted
HistoryEvent ==
    /\ phase = "history"
    /\ \E id \in DOMAIN sensors : TemperatureEvent(id)

\* run_history ends (with a plot, if asked for) and run_stream starts (with
\* another) and connects
StartStream ==
    /\ phase = "history"
    /\ phase' = IF args.plot /\ plot_progress(sensors)
                THEN "AttributeError" ELSE "stream"
    /\ nth_reconnect' = 0
    /\ UNCHANGED <<prm, args, sensors, n_reconnects, failed>>

\* run_stream: one event of the stream is served, then plotted
StreamEvent ==
    /\ phase = "stream"
    /\ \E id \in DOMAIN sensors : TemperatureEvent(id)

IgnoredEvent ==
    /\ phase \in {"history", "stream"}
    /\ \E e \in DeviceIds \X BOOLEAN : Dropped(e[1], e[2])

Next == HistoryEvent \/ StartStream \/ StreamEvent \/ IgnoredEvent

Spec == Init /\ [][Next]_vars

\* parameters.py edited: n_forecast and n_step_ahead in any relation to each
\* other and to the season
FreeConfigurations ==
    {[season_length |-> 2, n_seasons_init |-> 2,
      n_forecast |-> f, n_step_ahead |-> a] :
        f \in 1..MaxForecast, a \in 1..MaxStepAhead}

\* a Director under any of the configurations
InitConfig ==
    \E p \in Configurations \cup FreeConfigurations :
        Director(KnownIds, p, DefaultReconnects)

SpecConfig == InitConfig /\ [][Next]_vars

\* a Director of two temperature devices
InitPair == Director(PairIds, Parameters(2, 2), DefaultReconnects)

SpecPair == InitPair /\ [][Next]_vars

\* run_stream, lines 270-302: the connection is lost while listening
\* (ConnectionError or ChunkedEncodingError); the handler counts it and the
\* loop goes on while nth_reconnect < n_reconnects
ConnectionLost ==
    /\ phase = "stream"
    /\ nth_reconnect' = nth_reconnect + 1
    /\ phase' = IF nth_reconnect' < n_reconnects THEN "retry" ELSE "returned"
    /\ UNCHANGED <<prm, args, sensors, n_reconnects, failed>>

\* the next round of the loop: the counter is reset (line 275), then
\* requests.get raises, and the handler counts it
ReconnectFails ==
    /\ phase = "retry"
    /\ failed < MaxFailed
    /\ nth_reconnect' = 0 + 1
    /\ failed' = failed + 1
    /\ phase' = IF nth_reconnect' < n_reconnects THEN "retry" ELSE "returned"
    /\ UNCHANGED <<prm, args, sensors, n_reconnects>>

\* the next round of the loop: the counter is reset, the connection is made
Reconnected ==
    /\ phase = "retry"
    /\ nth_reconnect' = 0
    /\ failed' = 0
    /\ phase' = "stream"
    /\ UNCHANGED <<prm, args, sensors, n_reconnects>>

\* a Director of a project without temperature devices, streaming
InitStream ==
    \E n \in 1..MaxReconnects : Director({}, Parameters(2, 2), n)

NextStream ==
    StartStream \/ IgnoredEvent \/ ConnectionLost \/ ReconnectFails
    \/ Reconnected

SpecStream == InitStream /\ [][NextStream]_vars

----------------------------------------------------------------------------
(* Properties *)

\* samples a sensor needs before it initialises
Threshold == prm.season_length * prm.n_seasons_init

\* s is a prefix of t
IsPrefix(s, t) == Len(s) <= Len(t) /\ SubSeq(t, 1, Len(s)) = s

\* C1: once a sensor is initialised, its level, trend and season are as
\* long as the temperatures, and n_samples counts them.
C1_ComponentsAligned ==
    \A id \in DOMAIN sensors :
        LET s == sensors[id]
        IN  s.initialised =>
              /\ Len(s.model.level) = s.n_samples
              /\ Len(s.model.trend) = s.n_samples
              /\ Len(s.model.season) = s.n_samples
              /\ Len(s.model.temperature) = s.n_samples

\* an initialised sensor that has made recurrence steps
C1_Witness ==
    \E id \in DOMAIN sensors :
        /\ sensors[id].initialised
        /\ sensors[id].n_samples >= Threshold + 2
        /\ Len(sensors[id].model.trend) = sensors[id].n_samples

\* C2: level, trend and season are append-only: no step changes an element
\* that is written or shortens a sequence.
C2_AppendOnly ==
    [][\A id \in DOMAIN sensors :
          /\ IsPrefix(sensors[id].model.level, sensors'[id].model.level)
          /\ IsPrefix(sensors[id].model.trend, sensors'[id].model.trend)
          /\ IsPrefix(sensors[id].model.season, sensors'[id].model.season)]_vars

\* a sensor whose sequences were appended to after they were first written,
\* with a value that differs from the one before it
C2_Witness ==
    \E id \in DOMAIN sensors :
        LET m == sensors[id].model
        IN  /\ Len(m.level) >= Threshold + 2
            /\ PyAt(m.level, -1) # PyAt(m.level, -2)
            /\ PyAt(m.season, -1) # PyAt(m.season, -2)

\* C3: a sensor initialises exactly once, on the sample that brings the
\* count to the threshold and not before; the flag never goes back; every
\* later sample makes one recurrence step and one forecast.
C3_NotBefore ==
    \A id \in DOMAIN sensors :
        LET s == sensors[id]
        IN  /\ s.n_samples < Threshold =>
                /\ ~s.initialised
                /\ s.model.level = <<>> /\ s.model.trend = <<>>
                /\ s.model.season = <<>> /\ s.forecast.temperature = <<>>
            /\ (s.n_samples >= Threshold /\ phase \notin Exceptions) => s.initialised

C3_Step ==
    \A id \in DOMAIN sensors :
        LET s == sensors[id]
            n == sensors'[id]
        IN  /\ s.initialised => n.initialised
            /\ (s.model.season = <<>> /\ n.model.season # <<>>) =>
                  /\ n.n_samples = Threshold
                  /\ Len(n.model.season) = Threshold
                  /\ Len(n.model.level) = Threshold
                  /\ Len(n.model.trend) = Threshold
            /\ (~s.initialised /\ n.initialised) =>
                  /\ s.model.season = <<>>
                  /\ n.n_samples = Threshold
                  /\ Len(n.forecast.temperature) = 1
            /\ s.model.season # <<>> =>
                  Len(n.model.season) <= Len(s.model.season) + 1
            /\ (s.initialised /\ n.n_samples = s.n_samples + 1) =>
                  /\ Len(n.model.level) = Len(s.model.level) + 1
                  /\ Len(n.model.trend) = Len(s.model.trend) + 1
                  /\ Len(n.model.season) = Len(s.model.season) + 1
                  /\ Len(n.forecast.temperature) = Len(s.forecast.temperature) + 1
                  /\ Len(n.forecast.residual) = Len(s.forecast.residual) + 1
                  /\ n.local_forecast.temperature[1]
                       = PyAt(n.model.level, -1) + PyAt(n.model.season, -1)

C3_InitialisedOnce == []C3_NotBefore /\ [][C3_Step]_vars

\* a sensor in the steady state: initialised, and two samples later
C3_Witness ==
    \E id \in DOMAIN sensors :
        /\ sensors[id].initialised
        /\ sensors[id].n_samples = Threshold + 2
        /\ Len(sensors[id].forecast.temperature) = 3

\* C4: a sample that is older than the one before it is rejected and the
\* sensor is left as it was: no step writes such a sample into a sensor.
C4_OutOfOrderRejected ==
    [][\A id \in DOMAIN sensors :
          LET u == sensors[id].model.unixtime
              n == sensors'[id].model.unixtime
          IN  (u # <<>> /\ Len(n) = Len(u) + 1 /\ PyAt(n, -1) < PyAt(u, -1))
                => sensors'[id] = sensors[id]]_vars

\* C5: the first n_step_ahead residuals of a sensor are exactly 0.
C5_ColdStartResiduals ==
    \A id \in DOMAIN sensors :
        LET r == sensors[id].forecast.residual
        IN  \A k \in 1..Len(r) : k <= prm.n_step_ahead => r[k] = 0

\* the cold start is over, and its first sample did differ from the first
\* forecast on record, though its residual reads 0
C5_Witness ==
    \E id \in DOMAIN sensors :
        LET s == sensors[id]
        IN  /\ Len(s.forecast.residual) > prm.n_step_ahead
            /\ s.model.temperature[Threshold] # s.forecast.temperature[1]
            /\ s.forecast.residual[1] = 0
            /\ s.forecast.residual[prm.n_step_ahead + 1] # 0

\* C6: past the cold start, the residual recorded with the k-th forecast
\* is the distance between the temperature of the sample the k-th forecast
\* was made on and the forecast recorded n_step_ahead samples before.
C6_ResidualPairs ==
    \A id \in DOMAIN sensors :
        LET s == sensors[id]
            r == s.forecast.residual
        IN  \A k \in 1..Len(r) :
                k > prm.n_step_ahead =>
                    r[k] = Abs(s.model.temperature[Threshold + k - 1]
                               - s.forecast.temperature[k - prm.n_step_ahead])

\* two residuals were computed, from forecasts that differ
C6_Witness ==
    \E id \in DOMAIN sensors :
        LET s == sensors[id]
            r == s.forecast.residual
        IN  /\ Len(r) >= prm.n_step_ahead + 2
            /\ PyAt(r, -1) # 0
            /\ PyAt(r, -1) # PyAt(r, -2)
            /\ s.forecast.temperature[1] # s.forecast.temperature[2]

\* the season term of horizon t, at 0-based index base + ((t-1) mod
\* season_length) of the season sequence
ForecastFrom(m, t, base) ==
    m.level[Len(m.level)] + t*m.trend[Len(m.trend)]
    + m.season[base + ((t - 1) % prm.season_length) + 1]

\* C7 as claimed: with last the index of the newest element, the forecast
\* of horizon t reads season[last - season_length + ((t-1) mod season_length)].
C7_ForecastValueAsClaimed ==
    \A id \in DOMAIN sensors :
        LET s    == sensors[id]
            last == Len(s.model.season) - 1
        IN  s.initialised =>
              \A t \in 0..(prm.n_forecast - 1) :
                  s.local_forecast.temperature[t + 1]
                    = ForecastFrom(s.model, t, last - prm.season_length)

\* C7: the forecast of horizon t is level[last] + t*trend[last]
\* + season[last + 1 - season_length + ((t-1) mod season_length)].
C7_ForecastValue ==
    \A id \in DOMAIN sensors :
        LET s    == sensors[id]
            last == Len(s.model.season) - 1
        IN  s.initialised =>
              \A t \in 0..(prm.n_forecast - 1) :
                  s.local_forecast.temperature[t + 1]
                    = ForecastFrom(s.model, t, last + 1 - prm.season_length)

\* a forecast made after a recurrence step whose two readings of the season
\* differ at every horizon
C7_Witness ==
    \E id \in DOMAIN sensors :
        LET s    == sensors[id]
            last == Len(s.model.season) - 1
        IN  /\ s.initialised
            /\ s.n_samples > Threshold
            /\ PyAt(s.model.trend, -1) # 0
            /\ \A t \in 0..(prm.n_forecast - 1) :
                  ForecastFrom(s.model, t, last + 1 - prm.season_length)
                    # ForecastFrom(s.model, t, last - prm.season_length)

\* C8: every element the recurrence wrote, at index t, is the Holt-Winters
\* update of temperature[t], level[t-1], trend[t-1] and
\* season[t - season_length].
C8_Recurrence ==
    \A id \in DOMAIN sensors :
        LET m == sensors[id].model
            L == prm.season_length
        IN  sensors[id].initialised =>
              \A i \in (Threshold + 1)..Len(m.level) :
                  /\ m.level[i] = Times(alpha, m.temperature[i] - m.season[i - L])
                                  + Times(OneMinus(alpha), m.level[i - 1] + m.trend[i - 1])
                  /\ m.trend[i] = Times(beta, m.level[i] - m.level[i - 1])
                                  + Times(OneMinus(beta), m.trend[i - 1])
                  /\ m.season[i] = Times(gamma, m.temperature[i] - m.level[i - 1]
                                                - m.trend[i - 1])
                                   + Times(OneMinus(gamma), m.season[i - L])

\* two recurrence steps were made, and the second moved the trend
C8_Witness ==
    \E id \in DOMAIN sensors :
        LET m == sensors[id].model
        IN  /\ sensors[id].initialised
            /\ Len(m.level) >= Threshold + 2
            /\ PyAt(m.trend, -1) # PyAt(m.trend, -2)
            /\ PyAt(m.season, -1) # PyAt(m.season, -1 - prm.season_length)

\* samples of a sensor in the 24 h that end with its newest one
WindowSamples(s) ==
    LET u == s.model.unixtime
    IN  Cardinality({k \in 1..Len(u) : u[k] > u[Len(u)] - Day})

\* a multi-horizon forecast of n horizons that holds no data: the times
\* are NaN and the values and bounds are not numbers
NoData(f, n) ==
    /\ Len(f.unixtime) = n /\ Len(f.temperature) = n
    /\ Len(f.upper_bound) = n /\ Len(f.lower_bound) = n
    /\ \A t \in 1..n :
          /\ f.unixtime[t] = NaN
          /\ f.temperature[t] \notin Int
          /\ f.upper_bound[t] \notin Int
          /\ f.lower_bound[t] \notin Int

\* C9: the multi-horizon forecast of a sensor that is not initialised, or
\* that has fewer than 2 samples in its 24 h window, is n_forecast entries
\* of no data, and the plot that reads it raises no error.
C9_NoDataForecast ==
    /\ \A id \in DOMAIN sensors :
          LET s == sensors[id]
          IN  (IF s.initialised THEN WindowSamples(s) < 2 ELSE TRUE) =>
                NoData(s.local_forecast, prm.n_forecast)
    /\ args.plot => ~plot_progress(sensors)

\* C10 as claimed: the residuals of the newest n_step_ahead - 1 forecast
\* records read as a pending value, which no realised residual (an
\* absolute error, a number >= 0) can be.
C10_PendingSentinel ==
    \A id \in DOMAIN sensors :
        LET r == sensors[id].forecast.residual
        IN  Len(r) > prm.n_step_ahead =>
              \A k \in 1..Len(r) :
                  k > Len(r) - (prm.n_step_ahead - 1) => r[k] \notin Nat

\* C10: every forecast record, the newest included, has a residual from
\* the moment it is recorded, a number >= 0; past the cold start the newest
\* record's residual is the realised error of the sample just received.
C10_ResidualDefined ==
    \A id \in DOMAIN sensors :
        LET s == sensors[id]
            r == s.forecast.residual
        IN  /\ Len(r) = Len(s.forecast.temperature)
            /\ Len(r) = Len(s.forecast.unixtime)
            /\ \A k \in 1..Len(r) : r[k] \in Nat
            /\ Len(r) > prm.n_step_ahead =>
                  r[Len(r)] = Abs(s.model.temperature[s.n_samples]
                                  - s.forecast.temperature[Len(r) - prm.n_step_ahead])

\* the newest record of a sensor past its cold start holds a realised error
C10_Witness ==
    \E id \in DOMAIN sensors :
        LET r == sensors[id].forecast.residual
        IN  Len(r) > prm.n_step_ahead /\ r[Len(r)] > 0

\* C11: residual_std is the population standard deviation of the last
\* min(len(residuals), n_forecast) residuals, the newest included, and of
\* nothing else.
C11_ResidualStd ==
    \A id \in DOMAIN sensors :
        LET r == sensors[id].forecast.residual
            w == Min(Len(r), prm.n_forecast)
        IN  r # <<>> =>
              sensors[id].residual_std = Std(SubSeq(r, Len(r) - w + 1, Len(r)))

\* more residuals than the window holds, and the ones left out matter
C11_Witness ==
    \E id \in DOMAIN sensors :
        LET r == sensors[id].forecast.residual
        IN  /\ Len(r) > prm.n_forecast
            /\ sensors[id].residual_std > 0
            /\ Std(r) # sensors[id].residual_std

\* the sensor a fresh Sensor becomes when it is given, one at a time, the
\* first n of the samples <<unixtime, temperature>>
RECURSIVE Replayed(_, _, _)
Replayed(unixtime, temperature, n) ==
    IF n = 0 THEN Sensor(prm)
    ELSE new_event_data(Replayed(unixtime, temperature, n - 1),
                        unixtime[n], temperature[n], prm, args).sensor

\* the state of every sensor is that of a fresh sensor given its own samples
C12_OwnEventsOnly ==
    \A id \in DOMAIN sensors :
        sensors[id] = Replayed(sensors[id].model.unixtime,
                               sensors[id].model.temperature,
                               sensors[id].n_samples)

\* an event changes the sensor it is addressed to and no other
C12_FrameStep ==
    Cardinality({id \in DOMAIN sensors : sensors'[id] # sensors[id]}) <= 1

\* C12: sensors share no state.  Delivering an event for one device changes
\* no field of the sensor of another, and whatever the interleaving the
\* state of each sensor is determined by the events addressed to it.
C12_Independent == []C12_OwnEventsOnly /\ [][C12_FrameStep]_vars

\* two sensors, both fed, in different states, one of them initialised
C12_Witness ==
    \E id1, id2 \in DOMAIN sensors :
        /\ id1 # id2
        /\ sensors[id1].initialised
        /\ sensors[id2].n_samples > 0
        /\ sensors[id1].model.temperature # sensors[id2].model.temperature

\* a temperature event of a device without a sensor can arrive only as
\* a step that gives the device a sensor
C13_CreatedOnFirstEvent ==
    phase \in {"history", "stream"} =>
        \A id \in DeviceIds \ DOMAIN sensors :
            ENABLED (TemperatureEvent(id) /\ id \in DOMAIN sensors')

\* no step removes a sensor or puts a fresh one in its place
C13_Kept ==
    \A id \in DOMAIN sensors :
        /\ id \in DOMAIN sensors'
        /\ sensors'[id].n_samples >= sensors[id].n_samples

\* C13: a temperature event of a device id that has no sensor yet creates
\* a sensor for it and is applied to it, and a sensor, once created, is
\* never removed or replaced.
C13_SensorPerDevice == []C13_CreatedOnFirstEvent /\ [][C13_Kept]_vars

\* C14: two sensors that were given the same samples in the same order
\* hold the same level, trend and season after every sample, whether the
\* samples came in run_history or in run_stream.
C14_SameSamplesSameModel ==
    \A id1, id2 \in DOMAIN sensors :
        (/\ sensors[id1].model.unixtime = sensors[id2].model.unixtime
         /\ sensors[id1].model.temperature = sensors[id2].model.temperature)
        => /\ sensors[id1].model.level  = sensors[id2].model.level
           /\ sensors[id1].model.trend  = sensors[id2].model.trend
           /\ sensors[id1].model.season = sensors[id2].model.season

\* two sensors past their initialisation hold the same samples while the
\* Director streams
C14_Witness ==
    \E id1, id2 \in DOMAIN sensors :
        /\ id1 # id2
        /\ phase = "stream"
        /\ sensors[id1].model.temperature = sensors[id2].model.temperature
        /\ sensors[id1].model.unixtime = sensors[id2].model.unixtime
        /\ Len(sensors[id1].model.level) > Threshold
        /\ PyAt(sensors[id1].model.season, -1)
              # PyAt(sensors[id1].model.season, -1 - prm.season_length)

\* the least-squares slope of the points (i - 1, y[i])
FittedSlope(y) ==
    LET n   == Len(y)
        sx  == Sum([i \in 1..n |-> i - 1])
        sy  == Sum(y)
        sxx == Sum([i \in 1..n |-> (i - 1)*(i - 1)])
        sxy == Sum([i \in 1..n |-> (i - 1)*y[i]])
    IN  RDiv(n*sxy - sx*sy, n*sxx - sx*sx)

\* C15: what initialisation writes for the N = season_length *
\* n_seasons_init samples: trend is the fitted slope b at every index,
\* level[i] = a + b*i, so that level rises by b per index, and season
\* repeats with the period season_length.  (Indices here are 1-based.)
C15_InitialComponents ==
    \A id \in DOMAIN sensors :
        LET m        == sensors[id].model
            N        == Threshold
            adjusted == [k \in 1..N |-> m.temperature[k] - m.season[k]]
            b        == FittedSlope(adjusted)
            a        == RDiv(Sum(adjusted) - b*Sum([k \in 1..N |-> k - 1]), N)
        IN  Len(m.level) >= N =>
              /\ \A k \in 1..N :
                    /\ m.trend[k] = b
                    /\ m.level[k] = a + b*(k - 1)
                    /\ m.season[k] = m.season[((k - 1) % prm.season_length) + 1]
              /\ \A k \in 1..(N - 1) : m.level[k + 1] - m.level[k] = b

\* an initialised sensor whose fitted line is not flat and whose season is
\* not constant
C15_Witness ==
    \E id \in DOMAIN sensors :
        LET m == sensors[id].model
        IN  /\ sensors[id].initialised
            /\ m.trend[1] # 0
            /\ m.level[1] # m.trend[1]
            /\ m.season[1] # m.season[2]

\* C16: the stream loop retries a lost connection at most n_reconnects
\* times: once n_reconnects connection attempts in a row have failed,
\* with no connection made in between, run_stream has returned.
C16_BoundedRetries == failed >= n_reconnects => phase = "returned"

\* C17: under every configuration, the forecast recorded at a sample is
\* the horizon that targets the sample n_step_ahead later (horizon index
\* n_step_ahead - 1, whose time is n_step_ahead steps after the newest
\* sample), so that a residual that is not a placeholder compares a
\* sample with a forecast made for the time of that sample.
C17_RecordedTargetsStepAhead ==
    \A id \in DOMAIN sensors :
        LET m  == sensors[id].model
            fc == sensors[id].forecast
            n  == Len(fc.temperature)
        IN  n > 0 =>
              /\ fc.temperature[n] = ForecastValue(m, prm, prm.n_step_ahead - 1)
              /\ fc.unixtime[n] = ForecastTime(m.unixtime, StepLength(m.unixtime),
                                              prm.n_step_ahead - 1)
              /\ (n > prm.n_step_ahead /\ Irregular(m.unixtime) = 0) =>
                    fc.unixtime[n - prm.n_step_ahead]
                      = Num(Scale*PyAt(m.unixtime, -1))

\* the same where the configuration keeps n_step_ahead within n_forecast
C17_WithinForecast ==
    prm.n_step_ahead <= prm.n_forecast => C17_RecordedTargetsStepAhead

\* C18: under every configuration and for every sequence of samples, no
\* index read by the initialisation, by the recurrence or by the forecast
\* and residual code falls outside the sequence it reads: no call of
\* new_event_data raises IndexError.
C18_IndicesInRange == phase # "IndexError"

\* a forecast horizon shorter than the look-ahead, after a sample whose
\* residual looked n_step_ahead forecasts back and whose recurrence read
\* the season one cycle back
C18_Witness ==
    /\ prm.n_step_ahead > prm.n_forecast
    /\ phase \notin Exceptions
    /\ \E id \in DOMAIN sensors :
          /\ sensors[id].initialised
          /\ Len(sensors[id].forecast.temperature) > prm.n_step_ahead + 1
          /\ ~IndexError(InitReads(sensors[id], prm))
          /\ ~IndexError(IterateReads(sensors[id], prm))
          /\ ~IndexError(ForecastReads(sensors[id], prm))

\* C19: initialisation is all or nothing, also with the plot_init option:
\* in no reachable state is a sensor not initialised while its level,
\* trend or season holds entries.
C19_AllOrNothing ==
    \A id \in DOMAIN sensors :
        ~sensors[id].initialised =>
            /\ sensors[id].model.level = <<>>
            /\ sensors[id].model.trend = <<>>
            /\ sensors[id].model.season = <<>>

\* the same without the plot_init option
C19_WithoutPlot == ~args.plot_init => C19_AllOrNothing

\* the forecasts a sensor has made
Forecasts(s) == Len(s.forecast.temperature)

\* while the forecasts on record are at most n_step_ahead + 1, the bounds of
\* the newest multi-horizon forecast coincide with its value at every
\* horizon; the standard deviation left by each of the first n_step_ahead
\* forecasts is 0, and the one left by the next is taken over a window
\* that holds the placeholders
C20_ZeroWidth ==
    \A id \in DOMAIN sensors :
        LET s  == sensors[id]
            lf == s.local_forecast
            r  == s.forecast.residual
            n  == Forecasts(s)
        IN  (n >= 1 /\ n <= prm.n_step_ahead + 1) =>
              /\ \A k \in 1..prm.n_forecast :
                    /\ lf.upper_bound[k] = lf.temperature[k]
                    /\ lf.lower_bound[k] = lf.temperature[k]
              /\ n <= prm.n_step_ahead => s.residual_std = 0
              /\ \A k \in 1..Min(n, prm.n_step_ahead) : r[k] = 0
              /\ s.residual_std
                    = Std(SubSeq(r, Max(1, n - prm.n_forecast + 1), n))

\* a step in which a sensor makes a forecast puts its bounds at the
\* distance given by the standard deviation the sensor had before the step
C20_BoundsStep ==
    \A id \in DOMAIN sensors \cap DOMAIN sensors' :
        Forecasts(sensors'[id]) = Forecasts(sensors[id]) + 1 =>
            LET lf == sensors'[id].local_forecast
            IN  \A k \in 1..prm.n_forecast :
                  /\ lf.upper_bound[k] = lf.temperature[k]
                        + BoundWidth(sensors[id].residual_std, prm, k - 1)
                  /\ lf.lower_bound[k] = lf.temperature[k]
                        - BoundWidth(sensors[id].residual_std, prm, k - 1)

\* C20: the bounds computed for a sample use the residual_std left by the
\* previous sample, and the placeholder residuals of the cold start are
\* part of the window of the standard deviation; so the first
\* n_step_ahead + 1 forecasts after initialisation are made with a
\* residual_std of 0 and have upper_bound = lower_bound = forecast value
\* at every horizon.
C20_ColdStartBounds == []C20_ZeroWidth /\ [][C20_BoundsStep]_vars

\* forecast n_step_ahead + 1 has bounds of no width although the residual
\* recorded with it is not 0 and the standard deviation it leaves is not
\* 0; the forecast after it has bounds of some width
C20_Witness ==
    \E id \in DOMAIN sensors :
        LET s  == sensors[id]
            lf == s.local_forecast
        IN  /\ Forecasts(s) = prm.n_step_ahead + 1
            /\ s.forecast.residual[prm.n_step_ahead + 1] # 0
            /\ s.residual_std > 0
            /\ \A k \in 1..prm.n_forecast :
                    lf.upper_bound[k] = lf.lower_bound[k]

====
